---- MODULE Spec2Model ----
(***************************************************************************)
(* Model of src/AI.py: a Telegram bot that relays a user's message, with   *)
(* the stored chat history, to the Gemini API and sends the answer back.   *)
(*                                                                         *)
(* A Python str is modelled as a sequence of one-character strings, so     *)
(* that escape_markdown_v2 is computed character by character.  A Python   *)
(* value that may be None carries its type: Str(s) or None.                *)
(*                                                                         *)
(* The handlers are coroutines: a handler runs without interruption up to  *)
(* its next await, so there is one action per await of the source.         *)
(***************************************************************************)
EXTENDS Integers, Sequences, FiniteSets, TLC

\* ------------------------------------------------------------ bounds

\* Inbound events handled in one behaviour.
MaxEvents == 2

\* Mode-selection events handled in one behaviour of SpecSession.
MaxSelects == 2

\* Longest input text given to the sanitizer in SpecEsc.
MaxLen == 2

\* ------------------------------------------------- Python values

Str(s) == [type |-> "str", value |-> s]

None == [type |-> "NoneType", value |-> <<>>]

\* Python truth value of a str-or-None value (`if image_data:`).
Truthy(v) == v.type = "str" /\ v.value # <<>>

\* dict.get(k, default)
Get(d, k, default) == IF k \in DOMAIN d THEN d[k] ELSE default

\* ------------------------------------------------- program constants

max_retries == 3

API_URL_TEXT == "gemini-2.5-flash-preview-05-20:generateContent"

API_URL_IMAGE == "gemini-2.5-flash-image-preview:generateContent"

\* "I'm sorry, I encountered an error. Please try again later."
ERR_HTTP == <<
    "I", "'", "m", " ", "s", "o", "r", "r", "y", ",", " ", "I",
    " ", "e", "n", "c", "o", "u", "n", "t", "e", "r", "e", "d",
    " ", "a", "n", " ", "e", "r", "r", "o", "r", ".", " ", "P",
    "l", "e", "a", "s", "e", " ", "t", "r", "y", " ", "a", "g",
    "a", "i", "n", " ", "l", "a", "t", "e", "r", "." >>

\* "I'm sorry, I couldn't process your request."
ERR_UNEXPECTED == <<
    "I", "'", "m", " ", "s", "o", "r", "r", "y", ",", " ", "I",
    " ", "c", "o", "u", "l", "d", "n", "'", "t", " ", "p", "r",
    "o", "c", "e", "s", "s", " ", "y", "o", "u", "r", " ", "r",
    "e", "q", "u", "e", "s", "t", "." >>

THINKING == << "T", "h", "i", "n", "k", "i", "n", "g", ".", ".", "." >>

\* The prompt handle_image sends with every image.
IMAGE_PROMPT == <<
    "P", "l", "e", "a", "s", "e", " ", "a", "n", "a", "l", "y",
    "z", "e", " ", "t", "h", "e", " ", "f", "o", "l", "l", "o",
    "w", "i", "n", "g", " ", "i", "m", "a", "g", "e", " ", "a",
    "n", "d", " ", "p", "r", "o", "v", "i", "d", "e", " ", "a",
    " ", "d", "e", "t", "a", "i", "l", "e", "d", " ", "e", "x",
    "p", "l", "a", "n", "a", "t", "i", "o", "n", " ", "o", "f",
    " ", "t", "h", "e", " ", "m", "a", "t", "h", " ", "o", "r",
    " ", "s", "c", "i", "e", "n", "c", "e", " ", "p", "r", "o",
    "b", "l", "e", "m", " ", "s", "h", "o", "w", "n", ".", " ",
    "S", "o", "l", "v", "e", " ", "i", "t", " ", "i", "f", " ",
    "p", "o", "s", "s", "i", "b", "l", "e", "." >>

\* ------------------------------------------------- escape_markdown_v2

\* r'_*[]()~`>#+-=|{}.!'  (the backquote cannot be written in a TLA+ string:
\* the one-character string of the backquote is written "<backquote>")
escape_chars == {
    "_", "*", "[", "]", "(", ")", "~", "<backquote>", ">", "#", "+", "-",
    "=", "|", "{", "}", ".", "!" }

\* One character of the join: f'\\{char}' if char in escape_chars else char
EscapeChar(char) == IF char \in escape_chars THEN <<"\\", char>> ELSE <<char>>

RECURSIVE escape_markdown_v2(_)
escape_markdown_v2(text) ==
    IF text = <<>> THEN <<>>
    ELSE EscapeChar(Head(text)) \o escape_markdown_v2(Tail(text))

\* ------------------------------------------------- turns and payload

TextPart(prompt) == [text |-> Str(prompt)]

InlinePart(image_data) ==
    [inlineData |-> [mimeType |-> "image/jpeg", data |-> image_data.value]]

\* {"role": "user", "parts": [{"text": prompt}]}
UserTurn(prompt) == [role |-> "user", parts |-> << TextPart(prompt) >>]

\* {"role": "model", "parts": [{"text": text}]}; text may be None
ModelTurn(text) == [role |-> "model", parts |-> << [text |-> text] >>]

\* contents = history + [user turn]; the image part is appended to the new turn
BuildContents(hist, prompt, image_data) ==
    LET turn == UserTurn(prompt)
        last == IF Truthy(image_data)
                THEN [turn EXCEPT !.parts = Append(@, InlinePart(image_data))]
                ELSE turn
    IN  hist \o << last >>

\* Mutant: every request goes to the text endpoint.
ChooseUrlText(image_data) == API_URL_TEXT

ChooseUrl(image_data) == IF Truthy(image_data) THEN API_URL_IMAGE ELSE API_URL_TEXT

\* Mutant: the model turn is appended before the user turn.
AppendedModelFirst(hist, prompt, text) == hist \o << ModelTurn(text), UserTurn(prompt) >>

\* history.append(user turn); history.append(model turn)
Appended(hist, prompt, text) == hist \o << UserTurn(prompt), ModelTurn(text) >>

\* ------------------------------------------------- history store

NoDoc == [exists |-> FALSE, history |-> <<>>]

\* Mutant: every user's history is kept in one document of the application.
doc_ref_shared(user_id) == "U1"

\* db.collection('artifacts').document(app_id).collection('users')
\*   .document(user_id): one document per user
doc_ref(user_id) == user_id

\* get_chat_history: the stored list, [] for an unknown user or a failed read
get_chat_history(doc, ok) ==
    IF ~ok THEN <<>>
    ELSE IF doc.exists THEN doc.history ELSE <<>>

\* Mutant: the write appends the two new turns to whatever is stored at the
\* time of the write instead of replacing the document.
save_chat_history_append(st, uid, hist, ok) ==
    IF ok
    THEN [st EXCEPT ![uid] = [exists |-> TRUE,
                              history |-> @.history \o SubSeq(hist, Len(hist) - 1, Len(hist))]]
    ELSE st

\* save_chat_history: whole-document set of the 'history' field; a failed
\* write is logged and leaves the store as it was
save_chat_history(st, uid, hist, ok) ==
    IF ok THEN [st EXCEPT ![uid] = [exists |-> TRUE, history |-> hist]] ELSE st

\* ------------------------------------------------- upstream responses

\* client.post raised (timeout, connection error): not an HTTPStatusError
NetErr == [raised |-> TRUE, status_code |-> 0, body |-> <<>>]

\* a 4xx/5xx status: response.raise_for_status() raises HTTPStatusError
HttpStatus(code) == [raised |-> FALSE, status_code |-> code, body |-> <<>>]

\* a 2xx response with the JSON body `body`
Ok200(body) == [raised |-> FALSE, status_code |-> 200, body |-> body]

BodyText(t) == [candidates |-> << [content |-> [parts |-> << [text |-> Str(t)] >>]] >>]

\* the first part carries no "text" field
BodyNoText ==
    [candidates |-> << [content |-> [parts |-> << [inlineData |-> "img"] >>]] >>]

\* the first candidate has a content without parts
BodyNoParts == [candidates |-> << [content |-> [parts |-> <<>>]] >>]

\* the first candidate has no content (finishReason SAFETY)
BodyBlocked == [candidates |-> << [finishReason |-> "SAFETY"] >>]

BodyEmpty == [candidates |-> <<>>]

\* no "candidates" field at all
BodyNoCandidates == [promptFeedback |-> "SAFETY"]

\* Grounding attributions of the google_search tool (payload line 84): the
\* first carries a title and a URL, the second a URL only.
Attributions ==
    << [web |-> [uri |-> "https://a.example", title |-> "A"]],
       [web |-> [uri |-> "https://b.example"]] >>

\* an answer whose first candidate also carries grounding metadata
BodyGrounded(t) ==
    [candidates |->
        << [content |-> [parts |-> << [text |-> Str(t)] >>],
            groundingMetadata |-> [groundingAttributions |-> Attributions]] >>]

\* Answer texts the upstream may return.
AnswerTexts == { <<"4">>, <<"x", "*", "y">> }

UnusableBodies == { BodyNoParts, BodyBlocked, BodyEmpty, BodyNoCandidates }

Responses ==
    { NetErr, HttpStatus(429), HttpStatus(500), HttpStatus(400), Ok200(BodyNoText) }
    \cup { Ok200(b) : b \in UnusableBodies }
    \cup { Ok200(BodyText(t)) : t \in AnswerTexts }
    \cup { Ok200(BodyGrounded(<<"4">>)) }

\* The {title, url} pairs of the first candidate's grounding attributions
\* that carry both fields, in order.
Sources(body) ==
    LET candidates == Get(body, "candidates", <<>>)
        attrs == IF Len(candidates) = 0 THEN <<>>
                 ELSE Get(Get(candidates[1], "groundingMetadata", <<>>),
                          "groundingAttributions", <<>>)
        web(a) == Get(a, "web", <<>>)
        Both(a) == "title" \in DOMAIN web(a) /\ "uri" \in DOMAIN web(a)
    IN  SelectSeq(attrs, Both)

\* Mutant: the titles of the sources are appended to the extracted text.
ExtractWithSources(body) ==
    LET candidates == Get(body, "candidates", <<>>)
        parts == IF Len(candidates) = 0 THEN <<>>
                 ELSE Get(Get(candidates[1], "content", <<>>), "parts", <<>>)
        t == IF Len(parts) = 0 THEN None ELSE Get(parts[1], "text", None)
        titles == [i \in 1..Len(Sources(body)) |-> Sources(body)[i].web.title]
    IN  IF Len(parts) = 0 THEN [raised |-> TRUE, text |-> None]
        ELSE IF t = None \/ titles = <<>> THEN [raised |-> FALSE, text |-> t]
        ELSE [raised |-> FALSE, text |-> Str(t.value \o titles)]

\* Lines 103-105: result.get("candidates", [])[0], then
\* candidate.get("content", {}).get("parts", [])[0].get("text").
\* [0] of an empty list raises IndexError.
Extract(body) ==
    LET candidates == Get(body, "candidates", <<>>)
    IN  IF Len(candidates) = 0 THEN [raised |-> TRUE, text |-> None]
        ELSE LET candidate == candidates[1]
                 parts == Get(Get(candidate, "content", <<>>), "parts", <<>>)
             IN  IF Len(parts) = 0 THEN [raised |-> TRUE, text |-> None]
                 ELSE [raised |-> FALSE, text |-> Get(parts[1], "text", None)]

\* Which branch of the try statement an upstream response takes:
\* "success" (lines 107-112), "http_status" (except HTTPStatusError) or
\* "exception" (except Exception).
Branch(r) ==
    IF r.raised THEN "exception"
    ELSE IF r.status_code >= 400 THEN "http_status"
    ELSE IF Extract(r.body).raised THEN "exception"
    ELSE "success"

\* The outcome of an upstream call, as the failure taxonomy names it.
Outcome(r) ==
    IF r.raised THEN "transport"
    ELSE IF r.status_code = 429 THEN "rate_limited"
    ELSE IF r.status_code >= 400 THEN "http_error"
    ELSE IF Extract(r.body).raised THEN "unusable"
    ELSE IF Extract(r.body).text = None THEN "no_text"
    ELSE "answer"

\* Mutants of the retry conditions and of the backoff.
RetryHttpAnyStatus(status_code, attempt) == attempt < max_retries - 1

RetryHttpOffByOne(status_code, attempt) == status_code = 429 /\ attempt < max_retries - 2

RetryExceptionOffByOne(attempt) == attempt < max_retries - 2

BackoffLinear(attempt) == 2 * attempt

\* Line 116: the condition under which an HTTP error is retried.
RetryHttp(status_code, attempt) == status_code = 429 /\ attempt < max_retries - 1

\* Line 122: the condition under which any other exception is retried.
\* Mutant: an exception is never retried.
RetryExceptionNever(attempt) == FALSE

\* Mutant: an exception is followed by a wait even on the last attempt.
RetryExceptionAlways(attempt) == TRUE

RetryException(attempt) == attempt < max_retries - 1

\* Lines 117 and 123: asyncio.sleep(2 ** attempt)
Backoff(attempt) == 2 ^ attempt

\* What the handler passes to reply_markdown_v2 (lines 148 and 171).
\* Mutant: the sanitizer is applied to its own result before the send.
OutboundTwice(response_text) == escape_markdown_v2(escape_markdown_v2(response_text))

Outbound(response_text) == escape_markdown_v2(response_text)

\* ------------------------------------------------- inputs

Owners == { "U1", "U2" }

\* Handler invocations that may be in progress at the same time.
Procs == { 1, 2 }

\* Texts of inbound text messages.
TextPrompts == { <<"2", "+", "2", "?">> }

\* base64 of inbound photos
Images == { <<"/", "9", "j">> }

\* ------------------------------------------------- state

VARIABLES
    store,          \* Firestore: the document of each user
    events,         \* inbound events received so far
    pc,             \* where each handler invocation stands
    user_id,        \* handler local
    prompt,         \* generate_response argument
    image_data,     \* generate_response argument: Str(base64) or None
    history,        \* generate_response local
    contents,       \* generate_response local
    api_url,        \* generate_response local
    attempt,        \* generate_response loop variable
    response,       \* the upstream response of the current attempt
    text,           \* generate_response local: the extracted text
    response_text,  \* handler local: what generate_response returned
    outbound,       \* the sanitized text handed to the transport
    calls,          \* upstream HTTP calls made by this relay
    waits,          \* the asyncio.sleep durations of this relay, in order
    trace,          \* the outcome of each upstream call of this relay, in order
    sent,           \* messages delivered to the user for this event
    pre,            \* the user's stored history when the relay read it
    read_ok,        \* outcome of this relay's history read
    write_ok,       \* outcome of this relay's history write
    esc_pc,         \* SpecEsc: position of the sanitizer run
    esc_in,         \* SpecEsc: the input text
    esc_out,        \* SpecEsc: escape_markdown_v2(esc_in)
    esc_twice,      \* SpecEsc: escape_markdown_v2(esc_out)
    mode,           \* session mode of each user (section 4.4 of the specification)
    acks,           \* "send me a prompt" acknowledgments sent to each user
    purpose         \* the purpose the relay of each invocation runs for

locals == << user_id, prompt, image_data, history, contents, api_url, attempt,
             response, text, response_text, outbound, calls, waits, trace, sent,
             pre, read_ok, write_ok >>

esc_vars == << esc_pc, esc_in, esc_out, esc_twice >>

session_vars == << mode, acks, purpose >>

vars == << store, events, pc, locals, esc_vars, session_vars >>

NoResponse == [raised |-> FALSE, status_code |-> 0, body |-> <<>>]

\* Session modes: Idle, or AwaitingPrompt(purpose).
Purposes == { "TextGeneration", "ImageGeneration" }

Idle == [state |-> "Idle", purpose |-> "none"]

AwaitingPrompt(P) == [state |-> "AwaitingPrompt", purpose |-> P]

\* No event is in progress and every user is Idle.
InitHandlers ==
    /\ events = 0
    /\ pc = [p \in Procs |-> "idle"]
    /\ user_id = [p \in Procs |-> "U1"]
    /\ prompt = [p \in Procs |-> <<>>]
    /\ image_data = [p \in Procs |-> None]
    /\ history = [p \in Procs |-> <<>>]
    /\ contents = [p \in Procs |-> <<>>]
    /\ api_url = [p \in Procs |-> API_URL_TEXT]
    /\ attempt = [p \in Procs |-> 0]
    /\ response = [p \in Procs |-> NoResponse]
    /\ text = [p \in Procs |-> None]
    /\ response_text = [p \in Procs |-> None]
    /\ outbound = [p \in Procs |-> <<>>]
    /\ calls = [p \in Procs |-> 0]
    /\ waits = [p \in Procs |-> <<>>]
    /\ trace = [p \in Procs |-> <<>>]
    /\ sent = [p \in Procs |-> <<>>]
    /\ pre = [p \in Procs |-> <<>>]
    /\ read_ok = [p \in Procs |-> "none"]
    /\ write_ok = [p \in Procs |-> "none"]
    /\ mode = [o \in Owners |-> Idle]
    /\ acks = [o \in Owners |-> 0]
    /\ purpose = [p \in Procs |-> "none"]

\* The state after start-up: an empty store, no event in progress.
InitRelay ==
    /\ store = [o \in Owners |-> NoDoc]
    /\ InitHandlers

Init ==
    /\ InitRelay
    /\ esc_pc = "off"
    /\ esc_in = <<>>
    /\ esc_out = <<>>
    /\ esc_twice = <<>>

Finished(p) == pc[p] \in { "idle", "done", "raised" }

\* A new handler invocation starts with fresh locals.
Fresh(p, o, txt, img, at) ==
    /\ events' = events + 1
    /\ pc' = [pc EXCEPT ![p] = at]
    /\ user_id' = [user_id EXCEPT ![p] = o]
    /\ prompt' = [prompt EXCEPT ![p] = txt]
    /\ image_data' = [image_data EXCEPT ![p] = img]
    /\ history' = [history EXCEPT ![p] = <<>>]
    /\ contents' = [contents EXCEPT ![p] = <<>>]
    /\ api_url' = [api_url EXCEPT ![p] = API_URL_TEXT]
    /\ attempt' = [attempt EXCEPT ![p] = 0]
    /\ response' = [response EXCEPT ![p] = NoResponse]
    /\ text' = [text EXCEPT ![p] = None]
    /\ response_text' = [response_text EXCEPT ![p] = None]
    /\ outbound' = [outbound EXCEPT ![p] = <<>>]
    /\ calls' = [calls EXCEPT ![p] = 0]
    /\ waits' = [waits EXCEPT ![p] = <<>>]
    /\ trace' = [trace EXCEPT ![p] = <<>>]
    /\ sent' = [sent EXCEPT ![p] = <<>>]
    /\ pre' = [pre EXCEPT ![p] = <<>>]
    /\ read_ok' = [read_ok EXCEPT ![p] = "none"]
    /\ write_ok' = [write_ok EXCEPT ![p] = "none"]
    /\ UNCHANGED << store, esc_vars, acks >>

\* The mode of a user after a text event of that user: a prompt that was
\* awaited is consumed, and the mode is Idle whatever the relay does.
AfterTextEventStuck(m) == m

AfterTextEvent(m) == Idle

\* handle_message up to `await update.message.reply_text("Thinking...")`
ReceiveText(p, o, txt) ==
    /\ Finished(p)
    /\ events < MaxEvents
    /\ Fresh(p, o, txt, None, "thinking")
    /\ purpose' = [purpose EXCEPT ![p] = mode[o].purpose]
    /\ mode' = [mode EXCEPT ![o] = AfterTextEvent(@)]

\* handle_image up to `await update.message.reply_text("Thinking...")`;
\* get_file or download_as_bytearray may raise (ok = FALSE)
ReceiveImage(p, o, img, ok) ==
    /\ Finished(p)
    /\ events < MaxEvents
    /\ IF ok THEN Fresh(p, o, IMAGE_PROMPT, Str(img), "thinking")
       ELSE Fresh(p, o, <<>>, None, "raised")
    /\ purpose' = [purpose EXCEPT ![p] = "none"]
    /\ UNCHANGED mode

\* The placeholder reply returns (or raises); then generate_response is
\* called and runs up to `await doc_ref.get()`.
Thinking(p, ok) ==
    /\ pc[p] = "thinking"
    /\ IF ok
       THEN /\ sent' = [sent EXCEPT ![p] = Append(@, THINKING)]
            /\ pc' = [pc EXCEPT ![p] = "get"]
       ELSE /\ pc' = [pc EXCEPT ![p] = "raised"]
            /\ UNCHANGED sent
    /\ UNCHANGED << store, events, user_id, prompt, image_data, history, contents,
                    api_url, attempt, response, text, response_text, outbound,
                    calls, waits, trace, pre, read_ok, write_ok, esc_vars, session_vars >>

\* get_chat_history returns; lines 74-99 up to `await client.post(...)`
GetHistory(p, ok) ==
    /\ pc[p] = "get"
    /\ LET h == get_chat_history(store[doc_ref(user_id[p])], ok)
       IN  /\ history' = [history EXCEPT ![p] = h]
           /\ contents' = [contents EXCEPT ![p] = BuildContents(h, prompt[p], image_data[p])]
    /\ api_url' = [api_url EXCEPT ![p] = ChooseUrl(image_data[p])]
    /\ attempt' = [attempt EXCEPT ![p] = 0]
    /\ pre' = [pre EXCEPT ![p] = store[user_id[p]].history]
    /\ read_ok' = [read_ok EXCEPT ![p] = IF ok THEN "ok" ELSE "failed"]
    /\ pc' = [pc EXCEPT ![p] = "post"]
    /\ UNCHANGED << store, events, user_id, prompt, image_data, response, text,
                    response_text, outbound, calls, waits, trace, sent, write_ok,
                    esc_vars, session_vars >>

\* generate_response returns v; the handler sanitizes it and awaits
\* reply_markdown_v2.  escape_markdown_v2(None) raises TypeError.
Deliver(p, v) ==
    /\ response_text' = [response_text EXCEPT ![p] = v]
    /\ IF v.type = "str"
       THEN /\ outbound' = [outbound EXCEPT ![p] = Outbound(v.value)]
            /\ pc' = [pc EXCEPT ![p] = "reply"]
       ELSE /\ pc' = [pc EXCEPT ![p] = "raised"]
            /\ UNCHANGED outbound

\* asyncio.sleep(2 ** attempt) is awaited
StartSleep(p) ==
    /\ waits' = [waits EXCEPT ![p] = Append(@, Backoff(attempt[p]))]
    /\ pc' = [pc EXCEPT ![p] = "sleep"]
    /\ UNCHANGED << response_text, outbound >>

\* Lines 102-110: the text is extracted, both turns are appended to the
\* local history and save_chat_history is awaited.
OnSuccess(p, r) ==
    LET t == Extract(r.body).text
    IN  /\ text' = [text EXCEPT ![p] = t]
        /\ history' = [history EXCEPT ![p] = Appended(@, prompt[p], t)]
        /\ pc' = [pc EXCEPT ![p] = "save"]
        /\ UNCHANGED << store, waits, response_text, outbound >>

\* Mutant: a terminal HTTP error records the user's turn in the store.
OnHttpStatusErrorRecording(p, r) ==
    /\ IF RetryHttp(r.status_code, attempt[p])
       THEN StartSleep(p) /\ UNCHANGED store
       ELSE /\ Deliver(p, Str(ERR_HTTP))
            /\ store' = save_chat_history(store, doc_ref(user_id[p]),
                                          Append(history[p], UserTurn(prompt[p])), TRUE)
            /\ UNCHANGED waits
    /\ UNCHANGED << text, history >>

\* Lines 114-119: except httpx.HTTPStatusError
OnHttpStatusError(p, r) ==
    /\ IF RetryHttp(r.status_code, attempt[p])
       THEN StartSleep(p)
       ELSE Deliver(p, Str(ERR_HTTP)) /\ UNCHANGED waits
    /\ UNCHANGED << store, text, history >>

\* Lines 120-125: except Exception
OnException(p, r) ==
    /\ IF RetryException(attempt[p])
       THEN StartSleep(p)
       ELSE Deliver(p, Str(ERR_UNEXPECTED)) /\ UNCHANGED waits
    /\ UNCHANGED << store, text, history >>

\* The upstream call of the current attempt ends with response r:
\* lines 99-125 up to the next await or the return.
Post(p, r) ==
    /\ pc[p] = "post"
    /\ calls' = [calls EXCEPT ![p] = @ + 1]
    /\ response' = [response EXCEPT ![p] = r]
    /\ trace' = [trace EXCEPT ![p] = Append(@, Outcome(r))]
    /\ CASE Branch(r) = "success" -> OnSuccess(p, r)
         [] Branch(r) = "http_status" -> OnHttpStatusError(p, r)
         [] Branch(r) = "exception" -> OnException(p, r)
    /\ UNCHANGED << events, user_id, prompt, image_data, contents, api_url,
                    attempt, sent, pre, read_ok, write_ok, esc_vars, session_vars >>

\* The sleep ends; the for loop takes the next attempt, or ends and the
\* function returns None.
Wake(p) ==
    /\ pc[p] = "sleep"
    /\ attempt' = [attempt EXCEPT ![p] = @ + 1]
    /\ IF attempt[p] + 1 < max_retries
       THEN /\ pc' = [pc EXCEPT ![p] = "post"]
            /\ UNCHANGED << response_text, outbound >>
       ELSE Deliver(p, None)
    /\ UNCHANGED << store, events, user_id, prompt, image_data, history, contents,
                    api_url, response, text, calls, waits, trace, sent, pre,
                    read_ok, write_ok, esc_vars, session_vars >>

\* Mutant: a failed write propagates out of generate_response.
SaveRaises(p, ok) ==
    /\ pc[p] = "save"
    /\ store' = save_chat_history(store, doc_ref(user_id[p]), history[p], ok)
    /\ write_ok' = [write_ok EXCEPT ![p] = IF ok THEN "ok" ELSE "failed"]
    /\ IF ok THEN Deliver(p, text[p])
       ELSE pc' = [pc EXCEPT ![p] = "raised"] /\ UNCHANGED << response_text, outbound >>
    /\ UNCHANGED << events, user_id, prompt, image_data, history, contents, api_url,
                    attempt, response, text, calls, waits, trace, sent, pre,
                    read_ok, esc_vars, session_vars >>

\* save_chat_history returns (a failed write is only logged); line 112
\* returns text.
Save(p, ok) ==
    /\ pc[p] = "save"
    /\ store' = save_chat_history(store, doc_ref(user_id[p]), history[p], ok)
    /\ write_ok' = [write_ok EXCEPT ![p] = IF ok THEN "ok" ELSE "failed"]
    /\ Deliver(p, text[p])
    /\ UNCHANGED << events, user_id, prompt, image_data, history, contents, api_url,
                    attempt, response, text, calls, waits, trace, sent, pre,
                    read_ok, esc_vars, session_vars >>

\* reply_markdown_v2 returns or raises
Reply(p, ok) ==
    /\ pc[p] = "reply"
    /\ IF ok
       THEN /\ sent' = [sent EXCEPT ![p] = Append(@, outbound[p])]
            /\ pc' = [pc EXCEPT ![p] = "done"]
       ELSE /\ pc' = [pc EXCEPT ![p] = "raised"]
            /\ UNCHANGED sent
    /\ UNCHANGED << store, events, user_id, prompt, image_data, history, contents,
                    api_url, attempt, response, text, response_text, outbound,
                    calls, waits, trace, pre, read_ok, write_ok, esc_vars, session_vars >>

\* ------------------------------------------------- specifications

RECURSIVE SumOver(_, _)
SumOver(f, S) ==
    IF S = {} THEN 0
    ELSE LET x == CHOOSE y \in S : TRUE IN f[x] + SumOver(f, S \ {x})

\* Mode-selection events handled so far (each is acknowledged once).
SelectsSoFar == SumOver(acks, Owners)

\* A mode-selection event of user o while Idle: the mode becomes
\* AwaitingPrompt(P) and an acknowledgment is sent; no relay is started.
SelectMode(o, P) ==
    /\ mode[o] = Idle
    /\ SelectsSoFar < MaxSelects
    /\ mode' = [mode EXCEPT ![o] = AwaitingPrompt(P)]
    /\ acks' = [acks EXCEPT ![o] = @ + 1]
    /\ UNCHANGED << store, events, pc, locals, esc_vars, purpose >>

\* An inbound event starts handler invocation p.
Arrive(p) ==
    \/ \E o \in Owners, txt \in TextPrompts : ReceiveText(p, o, txt)
    \/ \E o \in Owners, img \in Images, ok \in BOOLEAN : ReceiveImage(p, o, img, ok)

\* Handler invocation p goes on to its next await, the upstream answering
\* from R.
Progress(p, R) ==
    \/ \E ok \in BOOLEAN : Thinking(p, ok)
    \/ \E ok \in BOOLEAN : GetHistory(p, ok)
    \/ \E r \in R : Post(p, r)
    \/ Wake(p)
    \/ \E ok \in BOOLEAN : Save(p, ok)
    \/ \E ok \in BOOLEAN : Reply(p, ok)

\* One step of handler invocation p.
StepWith(p, R) == Arrive(p) \/ Progress(p, R)

\* One event is handled at a time.
Next == StepWith(1, Responses)

Spec == Init /\ [][Next]_vars

\* A stored document holding one earlier exchange.
OneExchange ==
    [exists |-> TRUE,
     history |-> << UserTurn(<<"h", "i">>), ModelTurn(Str(<<"4">>)) >>]

\* The prompt of the exchange owner o had before: each owner's own.
EarlierPrompt(o) == IF o = "U1" THEN <<"h", "i">> ELSE <<"y", "o">>

\* The document owner o has after one earlier exchange.
StoredExchange(o) == [OneExchange EXCEPT !.history[1] = UserTurn(EarlierPrompt(o))]

\* Two events are handled concurrently, one by each handler invocation; each
\* user starts with no document or with one earlier exchange; an answer and
\* a rate limit are the upstream's outcomes.
InitPar ==
    /\ store \in { s \in [Owners -> { NoDoc } \cup { StoredExchange(o) : o \in Owners }] :
                      \A o \in Owners : s[o] \in { NoDoc, StoredExchange(o) } }
    /\ InitHandlers
    /\ esc_pc = "off"
    /\ esc_in = <<>>
    /\ esc_out = <<>>
    /\ esc_twice = <<>>

ParResponses == { Ok200(BodyText(<<"4">>)), HttpStatus(429) }

NextPar ==
    \E p \in Procs :
        \/ pc[p] = "idle" /\ Arrive(p)
        \/ Progress(p, ParResponses)

SpecPar == InitPar /\ [][NextPar]_vars

\* The session state machine with the relay: an answer, a terminal HTTP
\* error, a transport error and a part without text are the upstream's
\* outcomes.
SessionResponses ==
    { Ok200(BodyText(<<"4">>)), HttpStatus(500), NetErr, Ok200(BodyNoText) }

NextSession ==
    \/ \E o \in Owners, P \in Purposes : SelectMode(o, P)
    \/ StepWith(1, SessionResponses)

SpecSession == Init /\ [][NextSession]_vars

\* ------------------------------------------------- the sanitizer alone

\* The reserved characters, the backslash and two ordinary characters.
Alphabet == escape_chars \cup { "\\", "a", " " }

\* Every text of at most MaxLen characters.
Texts == UNION { [1 .. n -> Alphabet] : n \in 0 .. MaxLen }

InitEsc ==
    /\ InitRelay
    /\ esc_pc = "input"
    /\ esc_in \in Texts
    /\ esc_out = <<>>
    /\ esc_twice = <<>>

\* escape_markdown_v2(x)
EscOnce ==
    /\ esc_pc = "input"
    /\ esc_out' = escape_markdown_v2(esc_in)
    /\ esc_pc' = "once"
    /\ UNCHANGED << store, events, pc, locals, esc_in, esc_twice, session_vars >>

\* escape_markdown_v2(escape_markdown_v2(x))
EscTwice ==
    /\ esc_pc = "once"
    /\ esc_twice' = escape_markdown_v2(esc_out)
    /\ esc_pc' = "twice"
    /\ UNCHANGED << store, events, pc, locals, esc_in, esc_out, session_vars >>

NextEsc == EscOnce \/ EscTwice

SpecEsc == InitEsc /\ [][NextEsc]_vars

\* ------------------------------------------------- properties

Apologies == { Str(ERR_HTTP), Str(ERR_UNEXPECTED) }

\* generate_response has returned to the handler of p.
Returned(p) == pc[p] \in { "reply", "done" } \/ (pc[p] = "raised" /\ calls[p] > 0)

\* The last upstream call of p returned an answer text.
Answered(p) == trace[p] # <<>> /\ trace[p][Len(trace[p])] = "answer"

\* C1: a relay never makes more than maxRetries = 3 upstream calls, every
\* retry is preceded by one wait, and the wait between attempt k and attempt
\* k+1 is exactly 2^k time units.
C1_CallsAndBackoff ==
    \A p \in Procs :
        /\ calls[p] <= 3
        /\ Len(waits[p]) <= calls[p]
        /\ calls[p] <= Len(waits[p]) + 1
        /\ \A k \in 0 .. (Len(waits[p]) - 1) : waits[p][k + 1] = 2 ^ k

C1_Witness == \E p \in Procs : pc[p] = "done" /\ calls[p] = 3 /\ waits[p] = << 1, 2 >>

\* C2: after a relay that returned an answer text and whose write succeeded,
\* with no concurrent relay, the stored history is the history stored before
\* the relay followed by the user's turn and the model's turn, whatever the
\* outcome of the history read.
C2_SuccessAppendsTwoTurns ==
    \A p \in Procs :
        (Returned(p) /\ Answered(p) /\ write_ok[p] = "ok") =>
            LET h == store[user_id[p]].history
                n == Len(pre[p])
            IN  /\ Len(h) = n + 2
                /\ SubSeq(h, 1, n) = pre[p]
                /\ h[n + 1].role = "user"
                /\ h[n + 1].parts[1] = TextPart(prompt[p])
                /\ h[n + 2] = ModelTurn(text[p])

\* C3: after a relay that returned one of the fixed apology strings the
\* stored history is the one stored before the relay, and the relay issued
\* no save.
C3_FailureLeavesHistory ==
    \A p \in Procs :
        (Returned(p) /\ response_text[p] \in Apologies) =>
            /\ write_ok[p] = "none"
            /\ store[user_id[p]].history = pre[p]
            /\ store[user_id[p]].exists = (pre[p] # <<>>)

C3_Witness ==
    \E p \in Procs :
        /\ pc[p] = "done"
        /\ response_text[p] = Str(ERR_UNEXPECTED)
        /\ calls[p] = 3
        /\ pre[p] # <<>>
        /\ store[user_id[p]].history = pre[p]

\* An HTTP error status other than 429.
OtherHttpError(r) == ~r.raised /\ r.status_code >= 400 /\ r.status_code # 429

\* C4 (as claimed): an HTTP error status other than 429 is retried like 429,
\* so a relay that ended on HTTP 500 has made exactly 3 calls.
C4_OtherStatusRetried ==
    \A p \in Procs :
        (Returned(p) /\ OtherHttpError(response[p])) => calls[p] = 3

\* C4 (amended): an HTTP error status other than 429 ends the relay at once,
\* even with attempts remaining: no wait follows it, no further call is made,
\* the "try again later" apology is returned and the history is unchanged.
C4_OtherStatusTerminal ==
    \A p \in Procs :
        OtherHttpError(response[p]) =>
            /\ Returned(p)
            /\ response_text[p] = Str(ERR_HTTP)
            /\ calls[p] = attempt[p] + 1
            /\ Len(waits[p]) = attempt[p]
            /\ store[user_id[p]].history = pre[p]
            /\ write_ok[p] = "none"

C4_Witness ==
    \E p \in Procs :
        /\ pc[p] = "done"
        /\ response[p] = HttpStatus(500)
        /\ calls[p] = 1
        /\ waits[p] = <<>>
        /\ sent[p] = << THINKING, escape_markdown_v2(ERR_HTTP) >>

\* C5, the scenario: 429 on attempts 0 and 1, an answer on attempt 2.
C5_Scenario(p) == trace[p] = << "rate_limited", "rate_limited", "answer" >>

Unusable(r) == ~r.raised /\ r.status_code = 200 /\ Extract(r.body).raised

\* C6 (as claimed): a 2xx response without a usable candidate is not retried:
\* no wait and no further attempt follow it, the relay returns at once.
C6_EmptyResultNotRetried ==
    \A p \in Procs :
        (pc[p] # "post" /\ Unusable(response[p])) => Returned(p)

\* C6 (amended): a 2xx response without a usable candidate is handled like
\* any unexpected error: with attempts remaining the relay sleeps 2^attempt
\* and retries; on the third attempt it returns the "couldn't process your
\* request" apology, and the history is unchanged.
C6_EmptyResultRetried ==
    [][\A p \in Procs :
          (pc[p] = "post" /\ pc'[p] # "post" /\ Unusable(response'[p])) =>
              /\ store' = store
              /\ write_ok'[p] = "none"
              /\ IF attempt[p] < 2
                 THEN /\ pc'[p] = "sleep"
                      /\ waits'[p] = Append(waits[p], 2 ^ attempt[p])
                 ELSE /\ pc'[p] = "reply"
                      /\ response_text'[p] = Str(ERR_UNEXPECTED)
                      /\ calls'[p] = 3
                      /\ waits'[p] = waits[p]]_vars

C6_Witness ==
    \E p \in Procs :
        /\ pc[p] = "done"
        /\ trace[p] = << "unusable", "unusable", "unusable" >>
        /\ response[p] = Ok200(BodyEmpty)
        /\ waits[p] = << 1, 2 >>
        /\ response_text[p] = Str(ERR_UNEXPECTED)

\* C7: whatever the upstream and the store do, what generate_response
\* returns is a string: the extracted answer text or one of the two fixed
\* apology strings.
C7_AlwaysReturnsString ==
    \A p \in Procs :
        Returned(p) =>
            \/ response_text[p] \in Apologies
            \/ \E t \in AnswerTexts : response_text[p] = Str(t)

\* C8: a failed history read lets the relay go on with no prior turns, and a
\* failed history write after an answer was extracted still returns that
\* answer, which the handler sanitizes and sends; neither failure causes an
\* apology or a further upstream attempt.
C8_StoreFailureDoesNotBlock ==
    \A p \in Procs :
        /\ read_ok[p] = "failed" =>
              /\ contents[p] = BuildContents(<<>>, prompt[p], image_data[p])
              /\ pc[p] \in { "post", "sleep", "save" } \/ Returned(p)
        /\ (write_ok[p] = "failed" /\ Answered(p)) =>
              /\ pc[p] \in { "reply", "done", "raised" }
              /\ response_text[p] = text[p]
              /\ response_text[p] \notin Apologies
              /\ outbound[p] = escape_markdown_v2(text[p].value)
              /\ calls[p] = attempt[p] + 1
              /\ pc[p] = "done" => sent[p] = << THINKING, outbound[p] >>

C8_Witness ==
    \E p \in Procs :
        /\ pc[p] = "done"
        /\ read_ok[p] = "failed"
        /\ write_ok[p] = "failed"
        /\ Answered(p)
        /\ pre[p] # <<>>
        /\ sent[p] = << THINKING, escape_markdown_v2(text[p].value) >>

\* The text with every backslash that stands right before a reserved
\* character removed.
RECURSIVE DropMarkers(_)
DropMarkers(t) ==
    IF t = <<>> THEN <<>>
    ELSE IF Len(t) >= 2 /\ t[1] = "\\" /\ t[2] \in escape_chars
         THEN << t[2] >> \o DropMarkers(SubSeq(t, 3, Len(t)))
         ELSE << t[1] >> \o DropMarkers(Tail(t))

\* C10: in escape_markdown_v2(x) every reserved character is immediately
\* preceded by exactly one backslash (not by none, not by two or more), the
\* characters of x are copied unchanged in order, and escaping the result
\* again gives a different text whenever x holds a reserved character.
C10_ExactlyOneMarker ==
    esc_pc \in { "once", "twice" } =>
        /\ \A i \in 1 .. Len(esc_out) :
              esc_out[i] \in escape_chars =>
                  /\ i > 1
                  /\ esc_out[i - 1] = "\\"
                  /\ i > 2 => esc_out[i - 2] # "\\"
        /\ DropMarkers(esc_out) = esc_in
        /\ (esc_pc = "twice" /\ \E i \in 1 .. Len(esc_in) : esc_in[i] \in escape_chars)
              => esc_twice # esc_out

\* The parts of C10 that hold of the code: a backslash is put before every
\* reserved character, the characters of x are kept in order, and a second
\* application changes any text that holds a reserved character.
EscapePartsThatHold ==
    esc_pc \in { "once", "twice" } =>
        /\ \A i \in 1 .. Len(esc_out) :
              esc_out[i] \in escape_chars => (i > 1 /\ esc_out[i - 1] = "\\")
        /\ DropMarkers(esc_out) = esc_in
        /\ (esc_pc = "twice" /\ \E i \in 1 .. Len(esc_in) : esc_in[i] \in escape_chars)
              => esc_twice # esc_out

\* A step in which handler invocation p starts on a text event of user o.
TextEventStep(p, o) ==
    /\ events' = events + 1
    /\ pc'[p] = "thinking"
    /\ user_id'[p] = o
    /\ image_data'[p] = None
    /\ prompt'[p] \in TextPrompts

\* C9: per user the session mode follows Idle --select(P)--> AwaitingPrompt(P)
\* --next text event--> Idle.  A selection while Idle only sends an
\* acknowledgment: no handler step, no upstream call, no store change.  A text
\* event of the user is consumed as the prompt of a relay for the awaited
\* purpose and leaves the mode Idle; no step of the relay itself, whether it
\* ends in an answer, an apology or an exception, changes any mode.
C9_SessionMode ==
    [][\A o \in Owners :
          /\ (mode[o] = Idle /\ mode'[o] # Idle) =>
                /\ \E P \in Purposes : mode'[o] = AwaitingPrompt(P)
                /\ acks'[o] = acks[o] + 1
                /\ events' = events
                /\ << store, pc, calls, sent >>' = << store, pc, calls, sent >>
          /\ (mode[o] # Idle /\ mode'[o] # mode[o]) =>
                /\ mode'[o] = Idle
                /\ \E p \in Procs : TextEventStep(p, o) /\ purpose'[p] = mode[o].purpose
          /\ \A p \in Procs :
                TextEventStep(p, o) =>
                    /\ mode'[o] = Idle
                    /\ purpose'[p] = mode[o].purpose
                    /\ acks' = acks
          /\ (events' = events /\ acks' = acks) => mode' = mode]_vars

C9_Witness ==
    \E p \in Procs :
        /\ pc[p] = "done"
        /\ purpose[p] = "ImageGeneration"
        /\ response_text[p] \in Apologies
        /\ calls[p] = 3
        /\ acks[user_id[p]] = 1
        /\ mode[user_id[p]] = Idle

\* C11: the "Thinking..." placeholder is best-effort: whether sending it
\* succeeds or fails, the handler goes on to the relay (the history load).
C11_PlaceholderBestEffort ==
    [][\A p \in Procs :
          (pc[p] = "thinking" /\ pc'[p] # "thinking") => pc'[p] = "get"]_vars

\* What get_chat_history returned to invocation p: the snapshot stored at the
\* time of the read, or [] when the read failed.
Loaded(p) == IF read_ok[p] = "ok" THEN pre[p] ELSE <<>>

\* The two turns a successful relay of invocation p appends.
TwoTurns(p) == << UserTurn(prompt[p]), ModelTurn(text[p]) >>

\* Invocation p's write has succeeded.
Wrote(p) == write_ok[p] = "ok"

\* p and q relayed for the same owner, both loaded the same history before
\* either wrote, and both writes succeeded.
Raced(p, q) ==
    /\ p # q
    /\ user_id[p] = user_id[q]
    /\ read_ok[p] = "ok" /\ read_ok[q] = "ok"
    /\ pre[p] = pre[q]
    /\ Wrote(p) /\ Wrote(q)

\* C12: concurrent relays of one owner: each successful write replaces the
\* owner's document with the writer's own snapshot plus its two turns, so
\* the later writer wins; after two relays that loaded the same history H
\* and both succeeded the stored history is H plus the two turns of one
\* relay only; the store changes by whole documents only.
C12_LaterWriterWins ==
    /\ [][\A p \in Procs :
            (pc[p] = "save" /\ pc'[p] # "save" /\ write_ok'[p] = "ok")
            => store'[user_id[p]] =
                 [exists |-> TRUE, history |-> Loaded(p) \o TwoTurns(p)]]_vars
    /\ [][\A o \in Owners :
            store'[o] # store[o]
            => \E p \in Procs :
                 /\ user_id[p] = o /\ pc[p] = "save"
                 /\ store'[o].history = Loaded(p) \o TwoTurns(p)]_vars
    /\ [](\A p, q \in Procs :
            Raced(p, q)
            => /\ Len(store[user_id[p]].history) = Len(pre[p]) + 2
               /\ store[user_id[p]].history
                    \in { pre[p] \o TwoTurns(p), pre[p] \o TwoTurns(q) })

\* Both relays of U1 loaded the stored exchange, both wrote, the second
\* invocation wrote last: the first invocation's user turn is lost.
C12_Witness ==
    /\ Raced(1, 2)
    /\ pc[1] = "done" /\ pc[2] = "done"
    /\ pre[1] # <<>>
    /\ prompt[1] # prompt[2]
    /\ store[user_id[1]].history = pre[1] \o TwoTurns(2)
    /\ \A i \in 1..Len(store[user_id[1]].history) :
          store[user_id[1]].history[i] # UserTurn(prompt[1])

\* Invocation p has built its request and has not yet left the attempt loop.
InAttempts(p) == pc[p] \in { "post", "sleep" }

\* The turn holds an inline-media part.
HasInlineMedia(turn) ==
    \E i \in 1..Len(turn.parts) : "inlineData" \in DOMAIN turn.parts[i]

\* C13: the payload's turn sequence is the loaded prior turns followed by
\* one new user turn carrying the prompt; the multimodal endpoint is chosen
\* exactly when that new turn holds an inline-media part; payload and
\* endpoint do not change from one attempt to the next.
C13_PayloadAndEndpoint ==
    /\ [](\A p \in Procs :
            InAttempts(p)
            => LET n == Len(contents[p])
                   new == contents[p][n]
               IN  /\ history[p] = Loaded(p)
                   /\ n = Len(history[p]) + 1
                   /\ SubSeq(contents[p], 1, n - 1) = history[p]
                   /\ new.role = "user"
                   /\ new.parts[1] = TextPart(prompt[p])
                   /\ (api_url[p] = API_URL_IMAGE <=> HasInlineMedia(new))
                   /\ (api_url[p] = API_URL_TEXT <=> ~HasInlineMedia(new)))
    /\ [][\A p \in Procs :
            InAttempts(p)
            => contents'[p] = contents[p] /\ api_url'[p] = api_url[p]]_vars

\* An image relay with one stored exchange waits before its third attempt.
C13_Witness ==
    /\ pc[1] = "sleep" /\ calls[1] = 2
    /\ Truthy(image_data[1])
    /\ api_url[1] = API_URL_IMAGE
    /\ Len(contents[1]) = 3
    /\ HasInlineMedia(contents[1][3])

\* The upstream call raised before any status was received (timeout or
\* transport error).
Transport(r) == r.raised

\* C14: a timeout or transport error of one attempt is transient: with
\* attempts remaining the client waits 2^attempt and tries again; only the
\* third failed attempt returns the terminal failure string; history is not
\* written.
C14_TransportRetried ==
    [][\A p \in Procs :
          (pc[p] = "post" /\ calls'[p] = calls[p] + 1 /\ Transport(response'[p])) =>
              /\ store' = store
              /\ history'[p] = history[p]
              /\ IF calls[p] < 2
                 THEN /\ pc'[p] = "sleep"
                      /\ waits'[p] = Append(waits[p], 2 ^ calls[p])
                      /\ response_text'[p] = response_text[p]
                 ELSE /\ pc'[p] = "reply"
                      /\ response_text'[p] = Str(ERR_UNEXPECTED)
                      /\ outbound'[p] = escape_markdown_v2(ERR_UNEXPECTED)
                      /\ waits'[p] = waits[p]]_vars

\* Three transport errors in a row: two waits, then the failure string.
C14_Witness ==
    /\ pc[1] = "done"
    /\ trace[1] = << "transport", "transport", "transport" >>
    /\ waits[1] = << 1, 2 >>
    /\ response_text[1] = Str(ERR_UNEXPECTED)

\* The first text part of the first candidate of invocation p's last
\* response.
FirstText(p) == response[p].body.candidates[1].content.parts[1].text

\* The relay of invocation p returned a string after a successful attempt.
ReturnedAnswer(p) == pc[p] \in { "reply", "done" } /\ Answered(p)

\* C15 as stated: when the successful response carries citation entries with
\* both a title and a URL, the returned answer is the first text part
\* followed by a non-empty Sources block.
C15_SourcesAppended ==
    \A p \in Procs :
        (ReturnedAnswer(p) /\ Sources(response[p].body) # <<>>) =>
            LET a == response_text[p].value
                n == Len(FirstText(p).value)
            IN  /\ Len(a) > n
                /\ SubSeq(a, 1, n) = FirstText(p).value

\* C15 amended: the returned answer is the first text part alone, with or
\* without grounding metadata in the response; that text is what is
\* sanitized for the final send.
C15_TextOnly ==
    \A p \in Procs :
        ReturnedAnswer(p) =>
            /\ response_text[p] = FirstText(p)
            /\ outbound[p] = escape_markdown_v2(FirstText(p).value)

\* A grounded answer "4" was delivered as "4".
C15_Witness ==
    /\ pc[1] = "done"
    /\ Len(Sources(response[1].body)) = 1
    /\ response_text[1] = Str(<<"4">>)
    /\ sent[1] = << THINKING, <<"4">> >>

\* Invocation p reached the final send (about to send, or sent).
AtFinalSend(p) == pc[p] \in { "reply", "done" }

\* The text holds a character the sanitizer escapes.
HasReserved(t) == \E i \in 1..Len(t) : t[i] \in escape_chars

\* C16: for every event that reaches the final send, the text handed to the
\* transport is the relay result with the sanitizer applied exactly once,
\* for answers and for the failure strings alike: not the raw result and
\* not a twice-sanitized one.
C16_SanitizedOnce ==
    \A p \in Procs :
        AtFinalSend(p) =>
            LET r == response_text[p].value
            IN  /\ response_text[p].type = "str"
                /\ outbound[p] = escape_markdown_v2(r)
                /\ (pc[p] = "done" => sent[p] = << THINKING, escape_markdown_v2(r) >>)
                /\ (HasReserved(r) =>
                      /\ outbound[p] # r
                      /\ outbound[p] # escape_markdown_v2(escape_markdown_v2(r)))
                /\ (response_text[p] \in Apologies => HasReserved(r))

\* The answer "x*y" was sent as "x\*y".
C16_Witness ==
    /\ pc[1] = "done"
    /\ response_text[1] = Str(<<"x", "*", "y">>)
    /\ sent[1] = << THINKING, <<"x", "\\", "*", "y">> >>

\* The failure string was sent with its full stops escaped once.
C16_WitnessFailure ==
    /\ pc[1] = "done"
    /\ response_text[1] = Str(ERR_HTTP)
    /\ Len(sent[1][2]) > Len(ERR_HTTP)
    /\ sent[1][2] = escape_markdown_v2(ERR_HTTP)

\* One event is handled by invocation 1, from a store with or without an
\* earlier exchange, the upstream answering with any response.
NextLive ==
    \/ pc[1] = "idle" /\ Arrive(1)
    \/ Progress(1, Responses)

\* Every awaited call of the handler returns or raises: the upstream call
\* within its 60 s timeout, asyncio.sleep after its delay, the store and
\* transport calls when their client gives up.
Fairness == WF_vars(Progress(1, Responses))

SpecLive == InitPar /\ [][NextLive]_vars /\ Fairness

\* Total time spent in asyncio.sleep.
RECURSIVE WaitSum(_)
WaitSum(w) == IF w = <<>> THEN 0 ELSE w[1] + WaitSum(Tail(w))

\* C17: once generate_response has started it eventually returns; it makes
\* at most 3 attempts and waits at most 1 + 2 = 3 time units in total, and
\* it does not wait after its final attempt.
C17_Terminates ==
    /\ \A p \in Procs : (pc[p] = "get") ~> Returned(p)
    /\ [](\A p \in Procs :
            /\ calls[p] <= 3
            /\ WaitSum(waits[p]) <= 3
            /\ (Returned(p) => Len(waits[p]) = calls[p] - 1))

\* The relay returned after three attempts and a total wait of 3.
C17_Witness ==
    /\ Returned(1)
    /\ calls[1] = 3
    /\ WaitSum(waits[1]) = 3
    /\ trace[1] = << "rate_limited", "transport", "rate_limited" >>

\* The user turn invocation p sent upstream (the last turn of its payload).
SentTurn(p) == contents[p][Len(contents[p])]

\* The user turn stored by invocation p's write (the turn before the model
\* turn that ends the stored history).
PersistedTurn(p) ==
    LET h == store[user_id[p]].history IN h[Len(h) - 1]

\* C18: the user turn persisted by a successful relay is the turn that was
\* sent upstream, inline-media part included.
C18_PersistedTurnIsSentTurn ==
    (Wrote(1) /\ pc[1] \in { "reply", "done", "raised" }) => PersistedTurn(1) = SentTurn(1)

\* The history has even length and alternates user, model, ..., beginning
\* with a user turn.
Alternates(h) ==
    /\ Len(h) % 2 = 0
    /\ \A i \in 1..Len(h) : h[i].role = IF i % 2 = 1 THEN "user" ELSE "model"

\* C19: under every interleaving of relays, every owner's stored history has
\* even length and alternates user, model, ...; each write stores a snapshot
\* read from the store earlier (or the empty history) followed by exactly
\* one user turn and one model turn; a failed attempt writes nothing.
C19_StoredHistoryAlternates ==
    /\ [](\A o \in Owners : Alternates(store[o].history))
    /\ [][\A o \in Owners :
            store'[o] # store[o]
            => \E p \in Procs :
                 LET h == store'[o].history
                     n == Len(h)
                 IN  /\ user_id[p] = o /\ pc[p] = "save" /\ write_ok'[p] = "ok"
                     /\ n = Len(Loaded(p)) + 2
                     /\ SubSeq(h, 1, n - 2) \in { pre[p], <<>> }
                     /\ h[n - 1].role = "user" /\ h[n].role = "model"]_vars
    /\ [][\A p \in Procs :
            (pc[p] = "post" /\ pc'[p] \in { "sleep", "reply" }) => store' = store]_vars

\* Two relays of U1 ran one after the other on a stored exchange, the
\* second after a rate-limited attempt: three exchanges are stored.
C19_Witness ==
    /\ pc[1] = "done" /\ pc[2] = "done"
    /\ user_id[1] = "U1" /\ user_id[2] = "U1"
    /\ Len(store["U1"].history) = 6
    /\ trace[2] = << "rate_limited", "answer" >>

\* C20: relays are isolated per owner: a step of a relay for one owner
\* leaves every other owner's stored history unchanged, and the prior turns
\* of a payload are the snapshot stored under the relay's own owner (or
\* empty), never a turn of another owner.
C20_OwnersIsolated ==
    /\ [][\A p \in Procs :
            pc'[p] # pc[p]
            => \A o \in Owners : o # user_id'[p] => store'[o] = store[o]]_vars
    /\ [](\A p \in Procs :
            InAttempts(p)
            => /\ SubSeq(contents[p], 1, Len(contents[p]) - 1) \in { pre[p], <<>> }
               /\ \A o \in Owners, i \in 1..Len(contents[p]) :
                     o # user_id[p] => contents[p][i] # UserTurn(EarlierPrompt(o)))

\* U1's relay wrote while U2's relay, on U2's own stored exchange, was
\* between attempts: U2's document is as it was and U2's payload starts
\* with U2's own earlier turn.
C20_Witness ==
    /\ user_id[1] = "U1" /\ user_id[2] = "U2"
    /\ Wrote(1) /\ pc[1] = "done"
    /\ pc[2] = "sleep"
    /\ store["U2"] = StoredExchange("U2")
    /\ contents[2][1] = UserTurn(EarlierPrompt("U2"))
    /\ Len(store["U1"].history) = 4

====
